---- MODULE Spec2Model ----
(***************************************************************************)
(* Model of custom_components/visonic/alarm_control_panel.py: the          *)
(* VisonicAlarm entity, its state translation (update), its command        *)
(* dispatch (alarm_* / send_alarm_command), the sensor bypass service and  *)
(* the entity's removal.                                                   *)
(*                                                                         *)
(* Python values are encoded as follows.                                   *)
(*   - Optional values: <<>> is None, <<v>> is the value v.                *)
(*   - Text that the code inspects (entity ids, "Panel Last Event") is a   *)
(*     sequence of tokens / characters.                                    *)
(*   - The client is an opaque collaborator: every query made to it        *)
(*     (isPanelConnected, isSirenActive, getPanelStatusCode, ...) answers  *)
(*     with a value chosen by \E at the step that makes the call.          *)
(*                                                                         *)
(* Scheduling.  The host runs the synchronous entity methods (update,      *)
(* alarm_disarm, alarm_arm_*, the code_format read) outside the event loop *)
(* while async_will_remove_from_hass runs on the event loop, so these      *)
(* methods are split at every read of self._client.  The coroutine         *)
(* service_sensor_bypass runs on the event loop and is split only at its   *)
(* await.  One operation is in flight at a time; removal may happen at any *)
(* point of it.                                                            *)
(***************************************************************************)
EXTENDS Integers, Sequences, FiniteSets, TLC

VARIABLES
    lifecycle,       \* "constructed" | "added" | "removed"
    client,          \* TRUE iff self._client is not None
    mystate,         \* self._mystate
    attributes,      \* self._device_state_attributes (a dict: function on keys)
    last_triggered,  \* self._last_triggered
    frame,           \* the operation in flight: its position, arguments, locals
    obs              \* the calls the operation in flight has made on the client

vars == <<lifecycle, client, mystate, attributes, last_triggered, frame, obs>>

entity == <<mystate, attributes, last_triggered>>

-----------------------------------------------------------------------------
(* Bounds *)

\* arm codes returned by getPanelStatusCode() are drawn from -1..MaxArmCode and None
MaxArmCode == 7

\* device ids of a sensor's "visonic device" attribute are drawn from 0..MaxDevId
\* restricted to the neighbourhood of the range limits
DevIdSlack == 1

-----------------------------------------------------------------------------
(* Values *)

None == <<>>
Some(v) == <<v>>

STATE_UNKNOWN == "unknown"
STATE_ALARM_TRIGGERED == "triggered"
STATE_ALARM_DISARMED == "disarmed"
STATE_ALARM_PENDING == "pending"
STATE_ALARM_ARMING == "arming"
STATE_ALARM_ARMED_HOME == "armed_home"
STATE_ALARM_ARMED_AWAY == "armed_away"

FORMAT_NUMBER == "number"

ArmCodes == {None} \cup {Some(n) : n \in -1..MaxArmCode}

\* the codes a caller may supply to alarm_*: None, an empty string, a pin
AlarmCodes == {None, Some(""), Some("1234")}

\* the codes a service call may carry (ATTR_CODE, a string; "" when absent)
ServiceCodes == {"", "1234"}

MinDevice == 1
MaxDevice == 64

DevIds == ((MinDevice - DevIdSlack)..(MinDevice + DevIdSlack))
            \cup ((MaxDevice - DevIdSlack)..(MaxDevice + DevIdSlack))

AlarmOps == {"alarm_disarm", "alarm_arm_night", "alarm_arm_home", "alarm_arm_away"}

-----------------------------------------------------------------------------
(* Pure helpers *)

\* the table without "or armcode == 6"
StateForArmCode_NoUserTest(armcode) ==
    IF armcode = Some(0) THEN STATE_ALARM_DISARMED
    ELSE IF armcode = Some(1) \/ armcode = Some(3) THEN STATE_ALARM_PENDING
    ELSE IF armcode = Some(2) THEN STATE_ALARM_ARMING
    ELSE IF armcode = Some(4) THEN STATE_ALARM_ARMED_HOME
    ELSE IF armcode = Some(5) THEN STATE_ALARM_ARMED_AWAY
    ELSE STATE_UNKNOWN

\* the arm code -> state table of update()
StateForArmCode(armcode) ==
    IF armcode = Some(0) \/ armcode = Some(6) THEN STATE_ALARM_DISARMED
    ELSE IF armcode = Some(1) \/ armcode = Some(3) THEN STATE_ALARM_PENDING
    ELSE IF armcode = Some(2) THEN STATE_ALARM_ARMING
    ELSE IF armcode = Some(4) THEN STATE_ALARM_ARMED_HOME
    ELSE IF armcode = Some(5) THEN STATE_ALARM_ARMED_AWAY
    ELSE STATE_UNKNOWN

\* the commands with arm away ignoring isArmAwayInstant()
CommandFor_AwayNeverInstant(op, instant) ==
    CASE op = "alarm_disarm" -> "disarmed"
      [] op = "alarm_arm_night" -> "stayinstant"
      [] op = "alarm_arm_home" -> IF instant THEN "stayinstant" ELSE "stay"
      [] op = "alarm_arm_away" -> "armed"

\* the command each alarm_* method hands to send_alarm_command;
\* instant is the answer of isArmHomeInstant() / isArmAwayInstant()
CommandFor(op, instant) ==
    CASE op = "alarm_disarm" -> "disarmed"
      [] op = "alarm_arm_night" -> "stayinstant"
      [] op = "alarm_arm_home" -> IF instant THEN "stayinstant" ELSE "stay"
      [] op = "alarm_arm_away" -> IF instant THEN "armedinstant" ELSE "armed"

\* the condition of send_alarm_command under which the command is sent
MaySend(codeRequired, code) ==
    (codeRequired /\ code # None) \/ ~codeRequired

\* a pin handed to the client: a literal of this file, or the client's
\* decoding of the caller's code
LiteralPin(text) == [via |-> "literal", arg |-> Some(text)]

\* VisonicClient.decode_code: opaque, kept as the application to its argument
decode_code(code) == [via |-> "decode_code", arg |-> code]

NoPin == [via |-> "none", arg |-> None]

\* the device id test with its lower limit off by one
ValidDevice_FromZero(devid) == devid >= MinDevice - 1 /\ devid <= MaxDevice

\* the device id test of sensor_bypass
ValidDevice(devid) == devid >= MinDevice /\ devid <= MaxDevice

\* eid.startswith("binary_sensor.") on a tokenised entity id
StartsWithBinarySensor(eid) ==
    Len(eid) >= 2 /\ eid[1] = "binary_sensor" /\ eid[2] = "."

\* the entity id normalisation of service_sensor_bypass
NormalizeEid(eid) ==
    IF StartsWithBinarySensor(eid) THEN eid ELSE <<"binary_sensor", ".">> \o eid

Slugs == {"binary_sensor", "sensor", "visonic_z01"}

\* homeassistant.core.valid_entity_id: <slug>.<slug>
valid_entity_id(eid) ==
    Len(eid) = 3 /\ eid[1] \in Slugs /\ eid[2] = "." /\ eid[3] \in Slugs

\* the entity ids a service call may carry
EntityIds ==
    { <<"binary_sensor", ".", "visonic_z01">>, <<"visonic_z01">>,
      <<"sensor", ".", "visonic_z01">>, <<"Visonic Z01">> }

\* str.find on a sequence of characters (0-based, -1 when absent)
Find(s, c) ==
    IF \E i \in 1..Len(s) : s[i] = c
    THEN (CHOOSE i \in 1..Len(s) : s[i] = c /\ \A j \in 1..(i - 1) : s[j] # c) - 1
    ELSE -1

\* s[k:] for k >= 0
SliceFrom(s, k) == SubSeq(s, k + 1, Len(s))

RECURSIVE LStrip(_)
LStrip(s) == IF s # <<>> /\ Head(s) = " " THEN LStrip(Tail(s)) ELSE s

RECURSIVE RStrip(_)
RStrip(s) ==
    IF s # <<>> /\ s[Len(s)] = " " THEN RStrip(SubSeq(s, 1, Len(s) - 1)) ELSE s

\* str.strip
Strip(s) == LStrip(RStrip(s))

\* what update() derives from "Panel Last Event"
LastTriggeredFrom(s) == Strip(SliceFrom(s, Find(s, "/") + 1))

EventTexts ==
    { <<"A", "/", " ", "u", " ">>, <<"b">> }

EmptyDict == <<>>

\* the dicts getPanelStatus() may return
StatDicts ==
    {EmptyDict, ("Panel Last Event" :> None)}
        \cup { ("Panel Last Event" :> Some(t)) : t \in EventTexts }

\* hass.data[DOMAIN][DOMAINDATA]
DataDicts == { ("Exception Count" :> 0) }

\* {**stat, **data}
Merge(stat, data) ==
    [k \in DOMAIN stat \cup DOMAIN data |->
        IF k \in DOMAIN data THEN data[k] ELSE stat[k]]

\* the attributes update() stores given getPanelStatus() and hass data
AttributesFor(stat, data) ==
    IF data # None /\ stat # None THEN Merge(stat[1], data[1])
    ELSE IF stat # None THEN stat[1]
    ELSE IF data # None THEN data[1]
    ELSE EmptyDict

\* the changed_by value update() leaves
LastTriggeredFor(attrs, old) ==
    IF "Panel Last Event" \in DOMAIN attrs /\ attrs["Panel Last Event"] # None
    THEN LastTriggeredFrom(attrs["Panel Last Event"][1])
    ELSE old

-----------------------------------------------------------------------------
(* The operation in flight *)

BlankFrame ==
    [ op |-> "none", pc |-> "done", result |-> "ok", ret |-> None,
      code |-> None, pre |-> <<>>,
      checked |-> FALSE, connected |-> FALSE,
      siren |-> None, armcode |-> None, armRead |-> FALSE,
      instant |-> None, command |-> "", codeRequired |-> None, pcode |-> NoPin,
      sent |-> None,
      eid |-> <<>>, bypass |-> FALSE, scode |-> "", resumed |-> FALSE,
      sensor |-> None ]

NoCalls ==
    [ nSend |-> 0, cmd |-> "", pin |-> NoPin,
      nBypass |-> 0, bpDev |-> 0, bpFlag |-> FALSE, bpPin |-> NoPin,
      nDecode |-> 0, nWarn |-> 0 ]

\* the operation ends by raising e
Raise(f, e) == [f EXCEPT !.pc = "done", !.result = e]

\* the operation returns
Return(f) == [f EXCEPT !.pc = "done", !.result = "ok"]

\* self._client.createWarningMessage(AvailableNotifications.X, ...): the
\* attribute is looked up on self._client, then the name
\* AvailableNotifications, which this file does not import, is evaluated
CreateWarning(f, hasClient) ==
    Raise(f, IF hasClient THEN "NameError" ELSE "AttributeError")

Init ==
    /\ lifecycle = "constructed"
    /\ client = TRUE
    /\ mystate = STATE_UNKNOWN
    /\ attributes = EmptyDict
    /\ last_triggered = <<>>
    /\ frame = BlankFrame
    /\ obs = NoCalls

-----------------------------------------------------------------------------
(* Entity lifecycle *)

\* registers the dispatcher callback and the alarm_sensor_bypass service
async_added_to_hass ==
    /\ lifecycle = "constructed"
    /\ lifecycle' = "added"
    /\ UNCHANGED <<client, mystate, attributes, last_triggered, frame, obs>>

\* removes the service and drops the client reference
async_will_remove_from_hass ==
    /\ lifecycle = "added"
    /\ lifecycle' = "removed"
    /\ client' = FALSE
    /\ UNCHANGED <<mystate, attributes, last_triggered, frame, obs>>

-----------------------------------------------------------------------------
(* isPanelConnected, as called by the synchronous methods *)

\* the frame of a synchronous method that has just been entered and has
\* evaluated "self._client is None"
Enter(op, code, hasClient, notConnectedResult) ==
    LET pre == IF op \in AlarmOps THEN entity ELSE <<>> IN
    IF hasClient
    THEN [BlankFrame EXCEPT !.op = op, !.code = code, !.pre = pre,
                            !.pc = "is_connected", !.result = "running"]
    ELSE [BlankFrame EXCEPT !.op = op, !.code = code, !.pre = pre,
                            !.checked = TRUE, !.connected = FALSE,
                            !.pc = "done", !.result = notConnectedResult]

\* the same with alarm_arm_night missing its "not connected" test
AfterConnectedCheck_NightUnchecked(f, connected) ==
    LET g == [f EXCEPT !.checked = TRUE, !.connected = connected] IN
    IF f.op \in AlarmOps
    THEN IF ~connected /\ f.op # "alarm_arm_night" THEN Raise(g, "HomeAssistantError")
         ELSE IF f.op \in {"alarm_arm_home", "alarm_arm_away"}
              THEN [g EXCEPT !.pc = "instant"]
              ELSE [g EXCEPT !.pc = "code_required",
                             !.command = CommandFor(f.op, FALSE)]
    ELSE IF f.op = "update"
    THEN IF connected THEN [g EXCEPT !.pc = "siren"] ELSE Return(g)
    ELSE IF connected THEN [g EXCEPT !.pc = "format"] ELSE Return(g)

\* what a synchronous method does once isPanelConnected() has answered
AfterConnectedCheck(f, connected) ==
    LET g == [f EXCEPT !.checked = TRUE, !.connected = connected] IN
    IF f.op \in AlarmOps
    THEN IF ~connected THEN Raise(g, "HomeAssistantError")
         ELSE IF f.op \in {"alarm_arm_home", "alarm_arm_away"}
              THEN [g EXCEPT !.pc = "instant"]
              ELSE [g EXCEPT !.pc = "code_required",
                             !.command = CommandFor(f.op, FALSE)]
    ELSE IF f.op = "update"
    THEN IF connected THEN [g EXCEPT !.pc = "siren"] ELSE Return(g)
    ELSE IF connected THEN [g EXCEPT !.pc = "format"] ELSE Return(g)

\* return self._client.isPanelConnected()
isPanelConnected ==
    /\ frame.pc = "is_connected"
    /\ IF ~client
       THEN frame' = Raise(frame, "AttributeError")
       ELSE \E connected \in BOOLEAN : frame' = AfterConnectedCheck(frame, connected)
    /\ UNCHANGED <<lifecycle, client, mystate, attributes, last_triggered, obs>>

-----------------------------------------------------------------------------
(* update *)

update ==
    /\ frame.pc = "done"
    /\ mystate' = STATE_UNKNOWN
    /\ attributes' = EmptyDict
    /\ frame' = Enter("update", None, client, "ok")
    /\ obs' = NoCalls
    /\ UNCHANGED <<lifecycle, client, last_triggered>>

\* if self._client.isSirenActive()
update_isSirenActive ==
    /\ frame.pc = "siren"
    /\ IF ~client
       THEN /\ frame' = Raise(frame, "AttributeError")
            /\ UNCHANGED mystate
       ELSE \E siren \in BOOLEAN :
              /\ frame' = [frame EXCEPT !.siren = Some(siren),
                                        !.pc = IF siren THEN "attrs" ELSE "armcode"]
              /\ mystate' = IF siren THEN STATE_ALARM_TRIGGERED ELSE mystate
    /\ UNCHANGED <<lifecycle, client, attributes, last_triggered, obs>>

\* armcode = self._client.getPanelStatusCode() and the lookup
update_getPanelStatusCode ==
    /\ frame.pc = "armcode"
    /\ IF ~client
       THEN /\ frame' = Raise(frame, "AttributeError")
            /\ UNCHANGED mystate
       ELSE \E armcode \in ArmCodes :
              /\ frame' = [frame EXCEPT !.armcode = armcode, !.armRead = TRUE,
                                        !.pc = "attrs"]
              /\ mystate' = IF StateForArmCode(armcode) = STATE_UNKNOWN
                            THEN mystate ELSE StateForArmCode(armcode)
    /\ UNCHANGED <<lifecycle, client, attributes, last_triggered, obs>>

\* the attributes and changed_by
update_getPanelStatus ==
    /\ frame.pc = "attrs"
    /\ IF ~client
       THEN /\ frame' = Raise(frame, "AttributeError")
            /\ UNCHANGED <<attributes, last_triggered>>
       ELSE \E stat \in {None} \cup {Some(d) : d \in StatDicts},
               data \in {None} \cup {Some(d) : d \in DataDicts} :
              /\ attributes' =
                    IF stat = None /\ data = None THEN attributes
                    ELSE AttributesFor(stat, data)
              /\ last_triggered' = LastTriggeredFor(attributes', last_triggered)
              /\ frame' = Return(frame)
    /\ UNCHANGED <<lifecycle, client, mystate, obs>>

-----------------------------------------------------------------------------
(* code_format *)

code_format ==
    /\ frame.pc = "done"
    /\ frame' = Enter("code_format", None, client, "ok")
    /\ obs' = NoCalls
    /\ UNCHANGED <<lifecycle, client, mystate, attributes, last_triggered>>

\* alarm.FORMAT_NUMBER if self._client.isCodeRequired() else None
code_format_isCodeRequired ==
    /\ frame.pc = "format"
    /\ IF ~client
       THEN frame' = Raise(frame, "AttributeError")
       ELSE \E codeRequired \in BOOLEAN :
              frame' = [Return(frame) EXCEPT
                          !.codeRequired = Some(codeRequired),
                          !.ret = IF codeRequired THEN Some(FORMAT_NUMBER) ELSE None]
    /\ UNCHANGED <<lifecycle, client, mystate, attributes, last_triggered, obs>>

-----------------------------------------------------------------------------
(* alarm_disarm, alarm_arm_night, alarm_arm_home, alarm_arm_away *)

\* entry of an alarm_* method up to "self._client is None"
alarm_call(op, code) ==
    /\ frame.pc = "done"
    /\ frame' = Enter(op, code, client, "HomeAssistantError")
    /\ obs' = NoCalls
    /\ UNCHANGED <<lifecycle, client, mystate, attributes, last_triggered>>

alarm_disarm == \E code \in AlarmCodes : alarm_call("alarm_disarm", code)

alarm_arm_night == \E code \in AlarmCodes : alarm_call("alarm_arm_night", code)

alarm_arm_home == \E code \in AlarmCodes : alarm_call("alarm_arm_home", code)

alarm_arm_away == \E code \in AlarmCodes : alarm_call("alarm_arm_away", code)

\* command = ... if self._client.isArmHomeInstant() / isArmAwayInstant() else ...
alarm_arm_isInstant ==
    /\ frame.pc = "instant"
    /\ IF ~client
       THEN frame' = Raise(frame, "AttributeError")
       ELSE \E instant \in BOOLEAN :
              frame' = [frame EXCEPT !.instant = Some(instant),
                                     !.command = CommandFor(frame.op, instant),
                                     !.pc = "code_required"]
    /\ UNCHANGED <<lifecycle, client, mystate, attributes, last_triggered, obs>>

\* codeRequired = self._client.isCodeRequired() and the test on it
send_alarm_command_isCodeRequired ==
    /\ frame.pc = "code_required"
    /\ IF ~client
       THEN frame' = Raise(frame, "AttributeError")
       ELSE \E codeRequired \in BOOLEAN :
              frame' = [frame EXCEPT
                          !.codeRequired = Some(codeRequired),
                          !.pcode = IF MaySend(codeRequired, frame.code) /\ ~codeRequired
                                    THEN LiteralPin("") ELSE NoPin,
                          !.pc = IF ~MaySend(codeRequired, frame.code) THEN "warn"
                                 ELSE IF codeRequired THEN "decode" ELSE "send"]
    /\ UNCHANGED <<lifecycle, client, mystate, attributes, last_triggered, obs>>

\* pcode = self._client.decode_code(code)
send_alarm_command_decode_code ==
    /\ frame.pc = "decode"
    /\ IF ~client
       THEN /\ frame' = Raise(frame, "AttributeError")
            /\ UNCHANGED obs
       ELSE /\ frame' = [frame EXCEPT !.pcode = decode_code(frame.code), !.pc = "send"]
            /\ obs' = [obs EXCEPT !.nDecode = @ + 1]
    /\ UNCHANGED <<lifecycle, client, mystate, attributes, last_triggered>>

\* if not self._client.sendCommand(command, pcode)
send_alarm_command_sendCommand ==
    /\ frame.pc = "send"
    /\ IF ~client
       THEN /\ frame' = Raise(frame, "AttributeError")
            /\ UNCHANGED obs
       ELSE /\ obs' = [obs EXCEPT !.nSend = @ + 1, !.cmd = frame.command,
                                  !.pin = frame.pcode]
            /\ \E sent \in BOOLEAN :
                 frame' = IF sent THEN [Return(frame) EXCEPT !.sent = Some(TRUE)]
                          ELSE [frame EXCEPT !.sent = Some(FALSE), !.pc = "warn"]
    /\ UNCHANGED <<lifecycle, client, mystate, attributes, last_triggered>>

\* either createWarningMessage statement of send_alarm_command
send_alarm_command_createWarningMessage ==
    /\ frame.pc = "warn"
    /\ frame' = CreateWarning(frame, client)
    /\ UNCHANGED <<lifecycle, client, mystate, attributes, last_triggered, obs>>

-----------------------------------------------------------------------------
(* The alarm_sensor_bypass service *)

\* hass.states.get(eid): None, or a state whose "visonic device" is a device id
SensorStates == {None} \cup {Some(d) : d \in DevIds}

\* sensor_bypass(eid, bypass, code), run without interruption: the frame and
\* the client calls it leaves, given getPanelStatusCode() and hass.states.get(eid)
sensor_bypass(f, o, hasClient, armcode, sensor) ==
    LET g == [f EXCEPT !.armcode = armcode, !.armRead = TRUE] IN
    IF ~hasClient THEN <<Raise(f, "AttributeError"), o>>
    ELSE IF armcode = None \/ armcode = Some(-1) THEN <<CreateWarning(g, TRUE), o>>
    ELSE IF armcode = Some(0)
    THEN LET h == [g EXCEPT !.sensor = sensor] IN
         IF sensor # None
         THEN IF ValidDevice(sensor[1])
              THEN << Return(h),
                      [o EXCEPT !.nDecode = @ + 1, !.nBypass = @ + 1,
                                !.bpDev = sensor[1], !.bpFlag = f.bypass,
                                !.bpPin = decode_code(Some(f.scode))] >>
              ELSE <<CreateWarning(h, TRUE), o>>
         ELSE <<CreateWarning(h, TRUE), o>>
    ELSE <<CreateWarning(g, TRUE), o>>

\* the entity states sensor_bypass may look up: hass.states.get(eid) is
\* evaluated only when the panel is disarmed
LookedUp(armcode) == IF armcode = Some(0) THEN SensorStates ELSE {None}

\* service_sensor_bypass from its entry to the await on the user lookup, or
\* to its end when the call carries no user id
service_sensor_bypass ==
    /\ frame.pc = "done"
    /\ lifecycle = "added"
    /\ \E connected \in BOOLEAN :
         LET f0 == [BlankFrame EXCEPT !.op = "service_sensor_bypass",
                                      !.pre = entity, !.result = "running",
                                      !.checked = TRUE,
                                      !.connected = client /\ connected]
         IN  IF ~f0.connected
             THEN frame' = Raise(f0, "HomeAssistantError") /\ obs' = NoCalls
             ELSE \E isDict \in BOOLEAN,
                     entity_id \in {None} \cup {Some(e) : e \in EntityIds} :
                    IF ~isDict \/ entity_id = None
                    THEN frame' = CreateWarning(f0, client) /\ obs' = NoCalls
                    ELSE LET eid == NormalizeEid(entity_id[1]) IN
                         IF ~valid_entity_id(eid)
                         THEN /\ frame' = CreateWarning([f0 EXCEPT !.eid = eid], client)
                              /\ obs' = NoCalls
                         ELSE \E user_id \in BOOLEAN, bypass \in BOOLEAN,
                                 code \in ServiceCodes :
                                LET f1 == [f0 EXCEPT !.eid = eid, !.bypass = bypass,
                                                     !.scode = code]
                                IN  IF user_id
                                    THEN /\ frame' = [f1 EXCEPT !.pc = "await_user"]
                                         /\ obs' = NoCalls
                                    ELSE \E armcode \in ArmCodes :
                                         \E sensor \in LookedUp(armcode) :
                                           LET r == sensor_bypass(f1, NoCalls, client,
                                                                  armcode, sensor)
                                           IN  frame' = r[1] /\ obs' = r[2]
    /\ UNCHANGED <<lifecycle, client, mystate, attributes, last_triggered>>

\* service_sensor_bypass from the completion of async_get_user to its end
service_sensor_bypass_resume ==
    /\ frame.pc = "await_user"
    /\ \E user \in {"none", "denied", "allowed"} :
         LET f == [frame EXCEPT !.resumed = TRUE] IN
         IF user = "none"
         THEN frame' = Raise(f, "UnknownUser") /\ obs' = obs
         ELSE IF user = "denied"
         THEN frame' = Raise(f, "Unauthorized") /\ obs' = obs
         ELSE \E armcode \in ArmCodes :
              \E sensor \in LookedUp(armcode) :
                LET r == sensor_bypass(f, obs, client, armcode, sensor)
                IN  frame' = r[1] /\ obs' = r[2]
    /\ UNCHANGED <<lifecycle, client, mystate, attributes, last_triggered>>

-----------------------------------------------------------------------------

Next ==
    \/ async_added_to_hass
    \/ async_will_remove_from_hass
    \/ isPanelConnected
    \/ update
    \/ update_isSirenActive
    \/ update_getPanelStatusCode
    \/ update_getPanelStatus
    \/ code_format
    \/ code_format_isCodeRequired
    \/ alarm_disarm
    \/ alarm_arm_night
    \/ alarm_arm_home
    \/ alarm_arm_away
    \/ alarm_arm_isInstant
    \/ send_alarm_command_isCodeRequired
    \/ send_alarm_command_decode_code
    \/ send_alarm_command_sendCommand
    \/ send_alarm_command_createWarningMessage
    \/ service_sensor_bypass
    \/ service_sensor_bypass_resume

Spec == Init /\ [][Next]_vars

-----------------------------------------------------------------------------
(* Properties *)

AlarmCallDone == frame.op \in AlarmOps /\ frame.pc = "done"

\* the command the operation in flight is documented to send
ExpectedCommand ==
    IF frame.op = "alarm_disarm" THEN "disarmed"
    ELSE IF frame.op = "alarm_arm_night" THEN "stayinstant"
    ELSE IF frame.op = "alarm_arm_home"
    THEN IF frame.instant = Some(TRUE) THEN "stayinstant" ELSE "stay"
    ELSE IF frame.instant = Some(TRUE) THEN "armedinstant" ELSE "armed"

\* C1: once update() has found the panel connected and the siren not active
\* and has read the arm code, the entity state is DISARMED for 0 or 6,
\* PENDING for 1 or 3, ARMING for 2, ARMED_HOME for 4, ARMED_AWAY for 5 and
\* UNKNOWN for every other code, -1 and None included.
C1_StateTranslation ==
    ( frame.op = "update" /\ frame.connected /\ frame.siren = Some(FALSE)
      /\ frame.armRead )
    => mystate =
         ( IF frame.armcode \in {Some(0), Some(6)} THEN "disarmed"
           ELSE IF frame.armcode \in {Some(1), Some(3)} THEN "pending"
           ELSE IF frame.armcode = Some(2) THEN "arming"
           ELSE IF frame.armcode = Some(4) THEN "armed_home"
           ELSE IF frame.armcode = Some(5) THEN "armed_away"
           ELSE "unknown" )

C1_Witness ==
    /\ frame.op = "update" /\ frame.pc = "done" /\ frame.result = "ok"
    /\ frame.connected /\ frame.siren = Some(FALSE)
    /\ frame.armcode = Some(6) /\ mystate = "disarmed"

C3_BypassOnlyWhenDisarmed ==
    /\ obs.nBypass > 0 =>
          /\ obs.nBypass = 1
          /\ frame.op = "service_sensor_bypass"
          /\ frame.armcode = Some(0)
          /\ frame.sensor # None
          /\ frame.sensor[1] >= 1 /\ frame.sensor[1] <= 64
          /\ obs.bpDev = frame.sensor[1]
    /\ ( frame.armRead /\ frame.armcode # Some(0) ) => obs.nBypass = 0

C3_Witness ==
    /\ frame.op = "service_sensor_bypass" /\ frame.pc = "done"
    /\ frame.armcode = Some(0) /\ obs.nBypass = 1 /\ obs.bpDev = 64

\* C4: when the panel is not connected (no client, or isPanelConnected()
\* false) each alarm_* method and the bypass service fails with
\* HomeAssistantError, makes no sendCommand, sendBypass, decode_code or
\* createWarningMessage call and leaves state, attributes and changed_by as
\* they were.
C4_NotConnectedFails ==
    ( frame.op \in AlarmOps \cup {"service_sensor_bypass"}
      /\ frame.checked /\ ~frame.connected )
    => /\ frame.pc = "done"
       /\ frame.result = "HomeAssistantError"
       /\ obs.nSend = 0 /\ obs.nBypass = 0 /\ obs.nDecode = 0 /\ obs.nWarn = 0
       /\ <<mystate, attributes, last_triggered>> = frame.pre

C4_Witness ==
    /\ frame.op = "alarm_arm_night" /\ frame.checked /\ ~frame.connected
    /\ client
    /\ frame.result = "HomeAssistantError"
    /\ mystate = "armed_away" /\ last_triggered = <<"u">>

\* C5 as stated: in send_alarm_command, a required code that was not supplied
\* gives no sendCommand, no decode_code and exactly one warning; a code that
\* is not required gives the empty pin; a sendCommand that returns false
\* gives exactly one warning.
C5_WarningCreated ==
    ( AlarmCallDone /\ frame.result # "AttributeError" ) =>
      /\ ( frame.codeRequired = Some(TRUE) /\ frame.code = None )
         => ( obs.nSend = 0 /\ obs.nDecode = 0 /\ obs.nWarn = 1 )
      /\ ( frame.codeRequired = Some(FALSE) /\ obs.nSend = 1 )
         => obs.pin = LiteralPin("")
      /\ frame.sent = Some(FALSE) => obs.nWarn = 1

\* C6 as stated: whatever isArmHomeInstant() answers, alarm_arm_night(code)
\* sends the command and pin that alarm_arm_home(code) sends.
C6_NightSameAsHome ==
    ( frame.op = "alarm_arm_night" /\ obs.nSend = 1 ) =>
      \A instant \in BOOLEAN :
        /\ obs.cmd = CommandFor("alarm_arm_home", instant)
        /\ obs.pin = IF frame.codeRequired = Some(TRUE)
                     THEN decode_code(frame.code) ELSE LiteralPin("")

\* C7 as stated: no operation dereferences the None client after its
\* connected check has passed.
C7_NoNoneDereference ==
    ( frame.checked /\ frame.connected ) => frame.result # "AttributeError"

====
